---- MODULE Spec2Model ----
(***************************************************************************)
(* trelloCLI (src/index.js): one run of the command-line client against a  *)
(* remote board service.  A string is a sequence of one-character strings, *)
(* so that String.prototype.toLowerCase is computed character by           *)
(* character.  Every awaited axios call is two steps: the request is       *)
(* issued, then its response (or its failure) arrives.                     *)
(***************************************************************************)
EXTENDS Integers, Sequences, FiniteSets, TLC

VARIABLES
    API_KEY, TOKEN, \* lines 9-10: whether the environment holds the value
    remote,         \* the service: its boards, lists and cards
    remote0,        \* the service as it was when the process started
    pc,             \* the statement the run is at
    args,           \* line 145: process.argv.slice(2), once main has read it
    names,          \* boardName, listName (fromListName), taskName, toListName
    inflight,       \* axios calls awaiting their response
    requests,       \* the axios calls made so far
    output,         \* what console.log and console.error have printed
    exitCode,       \* the exit code of the process: 0 unless process.exit(1)
    board, list, toList, task, \* the locals of the four command functions
                               \* (list is moveTask's fromList)
    boards, lists, action      \* the locals of main's interactive mode

vars == <<API_KEY, TOKEN, remote, remote0, pc, args, names, inflight,
          requests, output, exitCode, board, list, toList, task,
          boards, lists, action>>

(* ------------------------------ bounds --------------------------------- *)

\* cards the remote service holds when the run starts
MaxCards == 2
\* command-line arguments of a run (process.argv.slice(2))
MaxArgs == 5

(* ------------------------------ strings -------------------------------- *)

MOVE == <<"m", "o", "v", "e">>
ADD == <<"a", "d", "d">>
DELETE == <<"d", "e", "l", "e", "t", "e">>
GET == <<"g", "e", "t">>
APPEND == <<"a", "p", "p", "e", "n", "d">>
HELP == <<"-", "-", "h", "e", "l", "p">>
H == <<"-", "h">>

\* the upper-case letters of the model's alphabet and their lower case
lowerOf == [A |-> "a", B |-> "b", C |-> "c", D |-> "d"]

toLowerCaseIdentity(s) == s

\* String.prototype.toLowerCase
toLowerCase(s) ==
    [i \in 1..Len(s) |-> IF s[i] \in DOMAIN lowerOf THEN lowerOf[s[i]] ELSE s[i]]

RECURSIVE findFrom(_, _, _)
\* Array.prototype.find with the predicate of lines 45, 60, 75: the index of
\* the first element whose name matches, 0 for undefined
findFrom(data, name, i) ==
    IF i > Len(data) THEN 0
    ELSE IF toLowerCase(data[i].name) = toLowerCase(name) THEN i
    ELSE findFrom(data, name, i + 1)

find(data, name) == findFrom(data, name, 1)

(* --------------------------- remote service ---------------------------- *)

undefinedBoard == [id |-> 0, name |-> <<>>]
undefinedList == [id |-> 0, name |-> <<>>, idBoard |-> 0]
undefinedCard == [id |-> 0, name |-> <<>>, desc |-> <<>>, idList |-> 0]

\* GET /members/me/boards
boardsData(r) == r.boards
\* GET /boards/{boardId}/lists
listsData(r, boardId) == SelectSeq(r.lists, LAMBDA l : l.idBoard = boardId)
\* GET /lists/{listId}/cards
cardsData(r, listId) == SelectSeq(r.cards, LAMBDA c : c.idList = listId)

\* PUT /cards/{cardId}?idList=
putCard(cards, cardId, idList) ==
    [i \in 1..Len(cards) |->
        IF cards[i].id = cardId THEN [cards[i] EXCEPT !.idList = idList]
        ELSE cards[i]]

RECURSIVE maxId(_)
maxId(cards) ==
    IF cards = <<>> THEN 0
    ELSE LET m == maxId(Tail(cards))
         IN  IF Head(cards).id > m THEN Head(cards).id ELSE m

\* POST /cards?idList=&name=
postCard(cards, idList, name) ==
    Append(cards, [id |-> maxId(cards) + 1, name |-> name, desc |-> <<>>,
                   idList |-> idList])

\* DELETE /cards/{cardId}
deleteCard(cards, cardId) == SelectSeq(cards, LAMBDA c : c.id # cardId)

(* ------------------------- inputs of a run ----------------------------- *)

\* the boards of the account: the second is shadowed by the first
RemoteBoards ==
    << [id |-> 1, name |-> <<"a", "b">>],
       [id |-> 2, name |-> <<"A", "B">>] >>

\* the lists of the boards, as three accounts hold them: none, one list on
\* each board, three lists on the first board
FewLists ==
    << [id |-> 1, name |-> <<"a", "B">>, idBoard |-> 1],
       [id |-> 2, name |-> <<"c", "d">>, idBoard |-> 2] >>

ManyLists ==
    FewLists \o
    << [id |-> 3, name |-> <<"A", "B">>, idBoard |-> 1],
       [id |-> 4, name |-> <<"C", "d">>, idBoard |-> 1] >>

RemoteLists == {<<>>, FewLists, ManyLists}

\* name and description of the cards the service may hold
CardKinds ==
    { [name |-> <<"a", "b">>, desc |-> <<"d">>],
      [name |-> <<"C", "D">>, desc |-> <<>>] }

\* the names a user may type
ArgNames == { <<"A", "b">>, <<"c", "D">> }

RemoteCards(ls) ==
    LET ids == {ls[i].id : i \in {j \in 1..Len(ls) : ls[j].idBoard = 1}}
    IN  UNION { { [i \in 1..n |->
                      [id |-> i, name |-> f[i][1].name, desc |-> f[i][1].desc,
                       idList |-> f[i][2]]]
                  : f \in [1..n -> CardKinds \X ids] }
                : n \in 0..MaxCards }

Remotes ==
    UNION { { [boards |-> RemoteBoards, lists |-> ls, cards |-> cs]
              : cs \in RemoteCards(ls) }
            : ls \in RemoteLists }

ActionTokens == {MOVE, ADD, DELETE, GET, APPEND}
HelpFlags == {HELP, H}

PlainVectors ==
    UNION { { <<a>> \o r : a \in ActionTokens, r \in [1..n -> ArgNames] }
            : n \in 0..(MaxArgs - 1) }

\* the argument vectors of a run: none (interactive), an action with names,
\* and either with a help flag at its end
ArgVectors ==
    {<<>>} \cup PlainVectors
    \cup { Append(v, f) : v \in {w \in PlainVectors \cup {<<>>} : Len(w) < MaxArgs},
                          f \in HelpFlags }

(* ----------------------------- the program ----------------------------- *)

Msg(m, n) == [msg |-> m, name |-> n]

noNames ==
    [boardName |-> <<>>, listName |-> <<>>, taskName |-> <<>>,
     toListName |-> <<>>]

Req(method, path, id, idList, name) ==
    [method |-> method, path |-> path, id |-> id, idList |-> idList,
     name |-> name]

BoardLabels ==
    {"move_board", "add_board", "delete_board", "get_board", "main_board"}
ListLabels == {"move_from", "move_to", "add_list", "delete_list", "get_list"}
TaskLabels == {"move_task", "delete_task"}
RequestLabels ==
    BoardLabels \cup ListLabels \cup TaskLabels
    \cup {"move_put", "add_post", "delete_delete", "get_cards", "main_lists"}

afterSwapped(l) ==
    CASE l = "move_board" -> "move_to"
      [] l = "move_to" -> "move_from"
      [] l = "move_from" -> "move_task"
      [] l = "move_task" -> "move_put"
      [] l = "add_board" -> "add_list"
      [] l = "add_list" -> "add_post"
      [] l = "delete_board" -> "delete_list"
      [] l = "delete_list" -> "delete_task"
      [] l = "delete_task" -> "delete_delete"
      [] l = "get_board" -> "get_list"
      [] l = "get_list" -> "get_cards"
      [] l = "main_board" -> "main_lists"
      [] l = "main_lists" -> "prompt_action"
      [] OTHER -> "done"

\* the statement that follows an awaited call in its function
after(l) ==
    CASE l = "move_board" -> "move_from"
      [] l = "move_from" -> "move_to"
      [] l = "move_to" -> "move_task"
      [] l = "move_task" -> "move_put"
      [] l = "add_board" -> "add_list"
      [] l = "add_list" -> "add_post"
      [] l = "delete_board" -> "delete_list"
      [] l = "delete_list" -> "delete_task"
      [] l = "delete_task" -> "delete_delete"
      [] l = "get_board" -> "get_list"
      [] l = "get_list" -> "get_cards"
      [] l = "main_board" -> "main_lists"
      [] l = "main_lists" -> "prompt_action"
      [] OTHER -> "done"

\* the axios call made at a statement
request(l) ==
    CASE l \in BoardLabels -> Req("GET", "/members/me/boards", 0, 0, <<>>)
      [] l \in ListLabels -> Req("GET", "/boards/id/lists", board.id, 0, <<>>)
      [] l = "main_lists" -> Req("GET", "/boards/id/lists", boards.id, 0, <<>>)
      [] l \in TaskLabels -> Req("GET", "/lists/id/cards", list.id, 0, <<>>)
      [] l = "get_cards" -> Req("GET", "/lists/id/cards", list.id, 0, <<>>)
      [] l = "move_put" -> Req("PUT", "/cards/id", task.id, toList.id, <<>>)
      [] l = "add_post" -> Req("POST", "/cards", 0, list.id, names.taskName)
      [] l = "delete_delete" -> Req("DELETE", "/cards/id", task.id, 0, <<>>)

credentialsMissingBoth(key, token) == ~key /\ ~token

\* !API_KEY || !TOKEN
credentialsMissing(key, token) == ~key \/ ~token

paramsOf(argv) == IF Len(argv) <= 2 THEN <<>> ELSE SubSeq(argv, 3, Len(argv))

commandAnyArity(argv) ==
    IF Len(argv) = 0 THEN "interactive"
    ELSE IF \E i \in 1..Len(argv) : argv[i] \in HelpFlags THEN "help"
    ELSE IF argv[1] = MOVE /\ Len(paramsOf(argv)) = 3 THEN "move"
    ELSE IF argv[1] = ADD /\ Len(paramsOf(argv)) = 2 THEN "add"
    ELSE IF argv[1] = DELETE /\ Len(paramsOf(argv)) = 2 THEN "delete"
    ELSE IF argv[1] = GET /\ Len(paramsOf(argv)) >= 1 THEN "get"
    ELSE "invalid"

\* the branch main takes on an argument vector
command(argv) ==
    IF Len(argv) = 0 THEN "interactive"
    ELSE IF \E i \in 1..Len(argv) : argv[i] \in HelpFlags THEN "help"
    ELSE IF argv[1] = MOVE /\ Len(paramsOf(argv)) = 3 THEN "move"
    ELSE IF argv[1] = ADD /\ Len(paramsOf(argv)) = 2 THEN "add"
    ELSE IF argv[1] = DELETE /\ Len(paramsOf(argv)) = 2 THEN "delete"
    ELSE IF argv[1] = GET /\ Len(paramsOf(argv)) = 1 THEN "get"
    ELSE "invalid"

\* the parameters main hands to the function of a command
namesOf(argv) ==
    LET p == paramsOf(argv)
    IN  [boardName |-> argv[2], listName |-> p[1],
         taskName |-> IF Len(p) >= 2 THEN p[2] ELSE <<>>,
         toListName |-> IF Len(p) >= 3 THEN p[3] ELSE <<>>]

getOutputAlwaysHeader(listName, data) ==
    <<Msg("Tasks in", listName)>>
    \o [i \in 1..Len(data) |-> Msg("-", data[i].name)]

\* what getTasksFromList prints for the cards of a list
getOutput(listName, data) ==
    IF Len(data) = 0 THEN <<Msg("No tasks found in", listName)>>
    ELSE <<Msg("Tasks in", listName)>>
         \o [i \in 1..Len(data) |-> Msg("-", data[i].name)]

Init ==
    /\ API_KEY \in BOOLEAN
    /\ TOKEN \in BOOLEAN
    /\ remote \in Remotes
    /\ remote0 = remote
    /\ pc = "start"
    /\ args = <<>>
    /\ names = noNames
    /\ inflight = 0
    /\ requests = <<>>
    /\ output = <<>>
    /\ exitCode = 0
    /\ board = undefinedBoard
    /\ list = undefinedList
    /\ toList = undefinedList
    /\ task = undefinedCard
    /\ boards = undefinedBoard
    /\ lists = <<>>
    /\ action = ""

\* module top level: the credentials are read and checked
Startup ==
    /\ pc = "start"
    /\ IF credentialsMissing(API_KEY, TOKEN)
       THEN /\ output' = Append(output, Msg("Missing Trello API Key or Token", <<>>))
            /\ exitCode' = 1
            /\ pc' = "done"
       ELSE /\ pc' = "main"
            /\ UNCHANGED <<output, exitCode>>
    /\ UNCHANGED <<API_KEY, TOKEN, remote, remote0, args, names, inflight,
                   requests, board, list, toList, task, boards, lists, action>>

\* main: the argument vector is read and the command chosen
Main ==
    /\ pc = "main"
    /\ \E argv \in ArgVectors :
        /\ args' = argv
        /\ LET c == command(argv)
           IN  CASE c = "interactive" ->
                      /\ pc' = "prompt_board"
                      /\ UNCHANGED <<names, output, exitCode>>
                 [] c = "help" ->
                      /\ pc' = "done"
                      /\ output' = Append(output, Msg("Usage", <<>>))
                      /\ UNCHANGED <<names, exitCode>>
                 [] c = "invalid" ->
                      /\ pc' = "done"
                      /\ output' = Append(output, Msg("Invalid arguments", <<>>))
                      /\ exitCode' = 1
                      /\ UNCHANGED names
                 [] OTHER ->
                      /\ pc' = c \o "_board"
                      /\ names' = namesOf(argv)
                      /\ UNCHANGED <<output, exitCode>>
    /\ UNCHANGED <<API_KEY, TOKEN, remote, remote0, inflight, requests, board,
                   list, toList, task, boards, lists, action>>

\* an axios call is made; the function awaits its response
SendRequest ==
    /\ pc \in RequestLabels
    /\ inflight = 0
    /\ requests' = Append(requests, request(pc))
    /\ inflight' = inflight + 1
    /\ UNCHANGED <<API_KEY, TOKEN, remote, remote0, pc, args, names, output,
                   exitCode, board, list, toList, task, boards, lists, action>>

\* a non-2xx response or a transport failure: the awaited call throws, and
\* main().catch prints the error
RemoteError ==
    /\ pc \in RequestLabels
    /\ inflight = 1
    /\ inflight' = inflight - 1
    /\ output' = Append(output, Msg("Error: request failed", <<>>))
    /\ pc' = "done"
    /\ UNCHANGED <<API_KEY, TOKEN, remote, remote0, args, names, requests,
                   exitCode, board, list, toList, task, boards, lists, action>>

\* a transport failure after the service has carried out a mutating request:
\* the change is made, the awaited call throws all the same
ResponseLost ==
    /\ pc \in {"move_put", "add_post", "delete_delete"}
    /\ inflight = 1
    /\ inflight' = inflight - 1
    /\ remote' = [remote EXCEPT !.cards =
                     CASE pc = "move_put" -> putCard(@, task.id, toList.id)
                       [] pc = "add_post" -> postCard(@, list.id, names.taskName)
                       [] pc = "delete_delete" -> deleteCard(@, task.id)]
    /\ output' = Append(output, Msg("Error: request failed", <<>>))
    /\ pc' = "done"
    /\ UNCHANGED <<API_KEY, TOKEN, remote0, args, names, requests, exitCode,
                   board, list, toList, task, boards, lists, action>>

ResolvedNoExit(kind, data, name) ==
    /\ output' = IF find(data, name) = 0
                 THEN Append(output, Msg(kind \o " not found", name))
                 ELSE output
    /\ pc' = after(pc)
    /\ UNCHANGED exitCode

\* the rest of a resolver once its response holds data: the entity found, or
\* the message and process.exit(1)
Resolved(kind, data, name) ==
    LET i == find(data, name)
    IN  IF i = 0
        THEN /\ output' = Append(output, Msg(kind \o " not found", name))
             /\ exitCode' = 1
             /\ pc' = "done"
        ELSE /\ pc' = after(pc)
             /\ UNCHANGED <<output, exitCode>>

getBoardByName ==
    /\ pc \in BoardLabels
    /\ inflight = 1
    /\ inflight' = inflight - 1
    /\ LET data == boardsData(remote)
           i == find(data, names.boardName)
       IN  /\ Resolved("Board", data, names.boardName)
           /\ IF i = 0 THEN UNCHANGED <<board, boards>>
              ELSE IF pc = "main_board"
                   THEN boards' = data[i] /\ UNCHANGED board
                   ELSE board' = data[i] /\ UNCHANGED boards
    /\ UNCHANGED <<API_KEY, TOKEN, remote, remote0, args, names, requests,
                   list, toList, task, lists, action>>

getListByName ==
    /\ pc \in ListLabels
    /\ inflight = 1
    /\ inflight' = inflight - 1
    /\ LET data == listsData(remote, board.id)
           name == IF pc = "move_to" THEN names.toListName ELSE names.listName
           i == find(data, name)
       IN  /\ Resolved("List", data, name)
           /\ IF i = 0 THEN UNCHANGED <<list, toList>>
              ELSE IF pc = "move_to"
                   THEN toList' = data[i] /\ UNCHANGED list
                   ELSE list' = data[i] /\ UNCHANGED toList
    /\ UNCHANGED <<API_KEY, TOKEN, remote, remote0, args, names, requests,
                   board, task, boards, lists, action>>

getTaskByName ==
    /\ pc \in TaskLabels
    /\ inflight = 1
    /\ inflight' = inflight - 1
    /\ LET data == cardsData(remote, list.id)
           i == find(data, names.taskName)
       IN  /\ Resolved("Task", data, names.taskName)
           /\ task' = IF i = 0 THEN task ELSE data[i]
    /\ UNCHANGED <<API_KEY, TOKEN, remote, remote0, args, names, requests,
                   board, list, toList, boards, lists, action>>

\* the end of a function whose last call succeeded
Finished(m, n) ==
    /\ inflight = 1
    /\ inflight' = inflight - 1
    /\ output' = Append(output, Msg(m, n))
    /\ pc' = after(pc)
    /\ UNCHANGED <<API_KEY, TOKEN, remote0, args, names, requests, exitCode,
                   board, list, toList, task, boards, lists, action>>

moveTaskToSource ==
    /\ pc = "move_put"
    /\ remote' = [remote EXCEPT !.cards = putCard(@, task.id, list.id)]
    /\ Finished("Task moved to", names.toListName)

moveTask ==
    /\ pc = "move_put"
    /\ remote' = [remote EXCEPT !.cards = putCard(@, task.id, toList.id)]
    /\ Finished("Task moved to", names.toListName)

addTask ==
    /\ pc = "add_post"
    /\ remote' = [remote EXCEPT !.cards = postCard(@, list.id, names.taskName)]
    /\ Finished("Task added to", names.listName)

deleteTask ==
    /\ pc = "delete_delete"
    /\ remote' = [remote EXCEPT !.cards = deleteCard(@, task.id)]
    /\ Finished("Task deleted from", names.listName)

getTasksFromList ==
    /\ pc = "get_cards"
    /\ inflight = 1
    /\ inflight' = inflight - 1
    /\ output' = output \o getOutput(names.listName, cardsData(remote, list.id))
    /\ pc' = after(pc)
    /\ UNCHANGED <<API_KEY, TOKEN, remote, remote0, args, names, requests,
                   exitCode, board, list, toList, task, boards, lists, action>>

(* interactive mode *)

Choices ==
    {"Move a task", "Add a task", "Delete a task", "Get tasks from a list"}

promptBoardName ==
    /\ pc = "prompt_board"
    /\ \E n \in ArgNames : names' = [noNames EXCEPT !.boardName = n]
    /\ pc' = "main_board"
    /\ UNCHANGED <<API_KEY, TOKEN, remote, remote0, args, inflight, requests,
                   output, exitCode, board, list, toList, task, boards, lists,
                   action>>

mainLists ==
    /\ pc = "main_lists"
    /\ inflight = 1
    /\ inflight' = inflight - 1
    /\ lists' = listsData(remote, boards.id)
    /\ pc' = after(pc)
    /\ UNCHANGED <<API_KEY, TOKEN, remote, remote0, args, names, requests,
                   output, exitCode, board, list, toList, task, boards, action>>

promptAction ==
    /\ pc = "prompt_action"
    /\ \E a \in Choices :
        /\ action' = a
        /\ pc' = IF a = "Get tasks from a list" THEN "prompt_list" ELSE "done"
    /\ UNCHANGED <<API_KEY, TOKEN, remote, remote0, args, names, inflight,
                   requests, output, exitCode, board, list, toList, task,
                   boards, lists>>

\* the list prompt offers the names of the board's lists; with none to offer
\* the prompt rejects and main().catch prints the error
promptList ==
    /\ pc = "prompt_list"
    /\ IF lists = <<>>
       THEN /\ output' = Append(output, Msg("Error: prompt failed", <<>>))
            /\ pc' = "done"
            /\ UNCHANGED names
       ELSE /\ \E i \in 1..Len(lists) :
                 names' = [noNames EXCEPT !.boardName = boards.name,
                                          !.listName = lists[i].name]
            /\ pc' = "get_board"
            /\ UNCHANGED output
    /\ UNCHANGED <<API_KEY, TOKEN, remote, remote0, args, inflight, requests,
                   exitCode, board, list, toList, task, boards, lists, action>>

Next ==
    \/ Startup
    \/ Main
    \/ SendRequest
    \/ RemoteError
    \/ ResponseLost
    \/ getBoardByName
    \/ getListByName
    \/ getTaskByName
    \/ moveTask
    \/ addTask
    \/ deleteTask
    \/ getTasksFromList
    \/ promptBoardName
    \/ mainLists
    \/ promptAction
    \/ promptList

Spec == Init /\ [][Next]_vars

(* ------------------------- vocabulary of the claims -------------------- *)

swapOf ==
    [a |-> "A", A |-> "a", b |-> "B", B |-> "b",
     c |-> "C", C |-> "c", d |-> "D", D |-> "d"]

\* two strings that differ at most in the case of their letters
EqualIgnoringCase(x, y) ==
    /\ Len(x) = Len(y)
    /\ \A i \in 1..Len(x) :
          x[i] = y[i] \/ (x[i] \in DOMAIN swapOf /\ swapOf[x[i]] = y[i])

\* every casing variant of a string
CaseVariants(s) ==
    { [i \in 1..Len(s) |->
          IF i \in S /\ s[i] \in DOMAIN swapOf THEN swapOf[s[i]] ELSE s[i]]
      : S \in SUBSET (1..Len(s)) }

\* the position of the earliest element named as asked, 0 when there is none
FirstMatch(data, name) ==
    LET hits == {i \in 1..Len(data) : EqualIgnoringCase(data[i].name, name)}
    IN  IF hits = {} THEN 0 ELSE CHOOSE i \in hits : \A j \in hits : i <= j

At(data, i, undef) == IF i = 0 THEN undef ELSE data[i]

HasMsg(m) == \E i \in 1..Len(output) : output[i].msg = m

NoHelp(v) == \A i \in 1..Len(v) : v[i] \notin HelpFlags

\* main has read the argument vector
Ran == pc \notin {"start", "main"}

\* a known action with the number of arguments the action takes
KnownCommand(v) ==
    /\ Len(v) >= 1
    /\ \/ v[1] = MOVE /\ Len(v) = 5
       \/ v[1] = ADD /\ Len(v) = 4
       \/ v[1] = DELETE /\ Len(v) = 4
       \/ v[1] = GET /\ Len(v) = 3

\* the run is the positional form of action a
Positional(a) == Ran /\ KnownCommand(args) /\ args[1] = a /\ NoHelp(args)

Mutating(r) == r.method \in {"PUT", "POST", "DELETE"}

\* what the names of the positional form denote in the remote state the run
\* started from
BoardAsked == At(remote0.boards, FirstMatch(remote0.boards, args[2]), undefinedBoard)
ListAsked(n) ==
    LET d == listsData(remote0, BoardAsked.id)
    IN  At(d, FirstMatch(d, n), undefinedList)
CardAsked(l, n) ==
    LET d == cardsData(remote0, l.id)
    IN  At(d, FirstMatch(d, n), undefinedCard)

\* the first resolution step of move, add or delete that has no match
ExpectedNotFound ==
    IF BoardAsked.id = 0 THEN Msg("Board not found", args[2])
    ELSE IF ListAsked(args[3]).id = 0 THEN Msg("List not found", args[3])
    ELSE IF args[1] = MOVE /\ ListAsked(args[5]).id = 0
         THEN Msg("List not found", args[5])
    ELSE IF args[1] \in {MOVE, DELETE} /\ CardAsked(ListAsked(args[3]), args[4]).id = 0
         THEN Msg("Task not found", args[4])
    ELSE Msg("", <<>>)

(* -------------------------------- C1 ----------------------------------- *)

Unusable == Ran /\ args # <<>> /\ ~KnownCommand(args)

\* C1 as stated: a positional command line with an unknown action or the wrong
\* number of arguments ends with a non-zero exit code and without any request,
\* also when one of its arguments is --help or -h.
C1_UsageErrorAlways ==
    Unusable => pc = "done" /\ exitCode # 0 /\ requests = <<>>

\* C1 amended: such a command line ends without any request; its exit code is
\* 1 when no argument is --help or -h, and with such an argument the usage text
\* is printed and the exit code is 0.
C1_UsageError ==
    Unusable =>
        /\ pc = "done"
        /\ requests = <<>>
        /\ remote = remote0
        /\ IF NoHelp(args)
           THEN exitCode = 1 /\ output = <<Msg("Invalid arguments", <<>>)>>
           ELSE exitCode = 0 /\ output = <<Msg("Usage", <<>>)>>

C1_Witness ==
    /\ pc = "done"
    /\ Len(args) = 4
    /\ args[1] = GET
    /\ NoHelp(args)
    /\ exitCode = 1

(* -------------------------------- C2 ----------------------------------- *)

Failed ==
    \/ HasMsg("Missing Trello API Key or Token")
    \/ HasMsg("Invalid arguments")
    \/ HasMsg("Board not found")
    \/ HasMsg("List not found")
    \/ HasMsg("Task not found")
    \/ HasMsg("Error: request failed")

Succeeded ==
    \/ HasMsg("Usage")
    \/ HasMsg("Task moved to")
    \/ HasMsg("Task added to")
    \/ HasMsg("Task deleted from")
    \/ HasMsg("Tasks in")
    \/ HasMsg("No tasks found in")

\* C2: a run that ends in a resolution failure, a validation failure or a
\* remote error exits with code 1, and a run exits with code 0 only if its
\* action succeeded.
C2_ExitCodes ==
    pc = "done" =>
        /\ Failed => exitCode = 1
        /\ exitCode = 0 => Succeeded

(* -------------------------------- C3 ----------------------------------- *)

Unresolvable ==
    /\ \/ Positional(MOVE)
       \/ Positional(ADD)
       \/ Positional(DELETE)
    /\ ExpectedNotFound.msg # ""

\* C3: in move, add and delete, when a resolution step has no case-insensitive
\* match the run makes no mutating request and leaves the remote state as it
\* was, and unless a request failed before that step it ends with exit code 1
\* and the not-found message of that kind and name.
C3_NotFoundBeforeMutation ==
    Unresolvable =>
        /\ remote = remote0
        /\ \A i \in 1..Len(requests) : ~Mutating(requests[i])
        /\ (pc = "done" /\ ~HasMsg("Error: request failed")) =>
              exitCode = 1 /\ output = <<ExpectedNotFound>>

C3_Witness ==
    /\ Positional(MOVE)
    /\ pc = "done"
    /\ BoardAsked.id # 0
    /\ ListAsked(args[3]).id # 0
    /\ ListAsked(args[5]).id = 0
    /\ output = <<Msg("List not found", args[5])>>
    /\ Len(remote0.cards) > 0

(* -------------------------------- C4 ----------------------------------- *)

\* the collection the service returns to the resolver that awaits it
ResponseData ==
    CASE pc \in BoardLabels -> boardsData(remote)
      [] pc \in ListLabels -> listsData(remote, board.id)
      [] pc \in TaskLabels -> cardsData(remote, list.id)

\* C4: a resolver returns the first element, in the order the service returned
\* the collection, whose name equals the requested name after case-folding:
\* every casing variant of a stored name resolves to the entity the stored
\* name resolves to, the earliest of those that share the case-folded name.
C4_FirstMatch ==
    /\ (pc \in BoardLabels \cup ListLabels \cup TaskLabels /\ inflight = 1) =>
          LET data == ResponseData
          IN  /\ \A i \in 1..Len(data) :
                    \A v \in CaseVariants(data[i].name) :
                       /\ find(data, v) = FirstMatch(data, data[i].name)
                       /\ find(data, v) = find(data, data[i].name)
                       /\ find(data, v) \in 1..i
              /\ \A n \in ArgNames : find(data, n) = FirstMatch(data, n)
    /\ board.id # 0 =>
          board = At(remote0.boards, FirstMatch(remote0.boards, names.boardName),
                     undefinedBoard)
    /\ list.id # 0 =>
          LET d == listsData(remote0, board.id)
          IN  list = At(d, FirstMatch(d, names.listName), undefinedList)
    /\ toList.id # 0 =>
          LET d == listsData(remote0, board.id)
          IN  toList = At(d, FirstMatch(d, names.toListName), undefinedList)
    /\ task.id # 0 =>
          LET d == cardsData(remote0, list.id)
          IN  task = At(d, FirstMatch(d, names.taskName), undefinedCard)

C4_Witness ==
    /\ task.id # 0
    /\ task.name # names.taskName
    /\ \E i \in 1..Len(remote0.cards) :
          /\ remote0.cards[i].id > task.id
          /\ remote0.cards[i].idList = task.idList
          /\ EqualIgnoringCase(remote0.cards[i].name, names.taskName)
    /\ list.name # names.listName
    /\ board.name # names.boardName

(* -------------------------------- C5 ----------------------------------- *)

MoveSucceeded == Positional(MOVE) /\ pc = "done" /\ HasMsg("Task moved to")

Source == ListAsked(args[3])
Destination == ListAsked(args[5])
Moved == CardAsked(Source, args[4])

\* the moved card lies in the destination list and every other card is as it
\* was
MovedAlone ==
    /\ Len(remote.cards) = Len(remote0.cards)
    /\ \A i \in 1..Len(remote0.cards) :
          IF remote0.cards[i].id = Moved.id
          THEN remote.cards[i] = [remote0.cards[i] EXCEPT !.idList = Destination.id]
          ELSE remote.cards[i] = remote0.cards[i]
    /\ remote.boards = remote0.boards
    /\ remote.lists = remote0.lists

SourceLostMoved ==
    cardsData(remote, Source.id)
        = SelectSeq(cardsData(remote0, Source.id), LAMBDA c : c.id # Moved.id)

\* C5 as stated: after a successful move the card's list is the destination
\* list, the source list has lost exactly that card and every other card is
\* unchanged.
C5_MoveAlwaysLeavesSource ==
    MoveSucceeded => MovedAlone /\ SourceLostMoved

\* C5 amended: after a successful move the card's list is the destination
\* list and every other card is unchanged; the source list has lost exactly
\* that card when the two list names resolve to different lists, and holds
\* the cards it held when they resolve to the same list.
C5_MoveFrame ==
    MoveSucceeded =>
        /\ MovedAlone
        /\ IF Source.id # Destination.id
           THEN SourceLostMoved
           ELSE cardsData(remote, Source.id) = cardsData(remote0, Source.id)

C5_Witness ==
    /\ MoveSucceeded
    /\ Source.id # Destination.id
    /\ Len(cardsData(remote0, Source.id)) = 2
    /\ Len(cardsData(remote, Source.id)) = 1

(* -------------------------------- C6 ----------------------------------- *)

RECURSIVE Join(_)
\* the strings of a sequence joined by single spaces
Join(ss) ==
    IF ss = <<>> THEN <<>>
    ELSE IF Len(ss) = 1 THEN ss[1]
    ELSE ss[1] \o <<" ">> \o Join(Tail(ss))

\* the marker U+1F4DD as one character
Marker == "memo"

Appended(a, b) ==
    IF a = <<>> THEN <<Marker, " ">> \o b
    ELSE a \o <<"\n", "\n", Marker, " ">> \o b

\* C6: append on a task with description A and extraInfo B, the remaining
\* arguments joined by single spaces, sets the description to A, two newlines,
\* the marker, a space and B, and to the marker, a space and B when A is empty.
C6_AppendDescription ==
    ( /\ pc = "done"
      /\ Len(args) >= 5
      /\ args[1] = APPEND
      /\ NoHelp(args)
      /\ BoardAsked.id # 0
      /\ ListAsked(args[3]).id # 0
      /\ CardAsked(ListAsked(args[3]), args[4]).id # 0 )
    => LET card == CardAsked(ListAsked(args[3]), args[4])
       IN  \E i \in 1..Len(remote.cards) :
              /\ remote.cards[i].id = card.id
              /\ remote.cards[i].desc
                    = Appended(card.desc, Join(SubSeq(args, 5, Len(args))))

(* -------------------------------- C7 ----------------------------------- *)

GetRun ==
    \/ Positional(GET)
    \/ Ran /\ args = <<>> /\ action = "Get tasks from a list"

GetCompleted ==
    /\ GetRun
    /\ pc = "done"
    /\ exitCode = 0
    /\ ~HasMsg("Error: request failed")
    /\ ~HasMsg("Error: prompt failed")

\* C7: get on a list without cards prints the "no tasks" indication and makes
\* no request after the one that fetched the list's cards, and no run of get
\* makes a mutating request.
C7_GetReadsOnly ==
    GetRun =>
        /\ \A i \in 1..Len(requests) : ~Mutating(requests[i])
        /\ remote = remote0
        /\ (GetCompleted /\ cardsData(remote0, list.id) = <<>>) =>
              /\ output = <<Msg("No tasks found in", names.listName)>>
              /\ requests[Len(requests)]
                    = Req("GET", "/lists/id/cards", list.id, 0, <<>>)

C7_Witness ==
    /\ Positional(GET)
    /\ pc = "done"
    /\ HasMsg("No tasks found in")
    /\ Len(requests) = 3
    /\ Len(remote0.cards) > 0

(* -------------------------------- C8 ----------------------------------- *)

\* C8: when either credential is absent the process exits with code 1 before
\* any request is made and before the arguments are read or dispatched.
C8_NoCredentialsNoStart ==
    (~API_KEY \/ ~TOKEN) =>
        /\ pc \in {"start", "done"}
        /\ requests = <<>>
        /\ inflight = 0
        /\ args = <<>>
        /\ names = noNames
        /\ remote = remote0
        /\ pc = "done" =>
              /\ exitCode = 1
              /\ output = <<Msg("Missing Trello API Key or Token", <<>>)>>

C8_Witness == pc = "done" /\ API_KEY /\ ~TOKEN /\ exitCode = 1

(* -------------------------------- C9 ----------------------------------- *)

Paths == [i \in 1..Len(requests) |-> <<requests[i].method, requests[i].path>>]

\* the requests of the positional form of an action offered by the menu
PositionalPaths(a) ==
    LET b == <<"GET", "/members/me/boards">>
        l == <<"GET", "/boards/id/lists">>
        c == <<"GET", "/lists/id/cards">>
    IN  CASE a = "Move a task" -> <<b, l, l, c, <<"PUT", "/cards/id">>>>
          [] a = "Add a task" -> <<b, l, <<"POST", "/cards">>>>
          [] a = "Delete a task" -> <<b, l, c, <<"DELETE", "/cards/id">>>>
          [] a = "Get tasks from a list" -> <<b, l, c>>

\* C9: the interactive mode performs for the action chosen the requests of the
\* positional form of that action, and choosing an action never ends the run
\* without that action's remote effect.
C9_InteractiveSameSteps ==
    ( /\ pc = "done"
      /\ args = <<>>
      /\ action # ""
      /\ exitCode = 0
      /\ ~HasMsg("Error: request failed")
      /\ ~HasMsg("Error: prompt failed") )
    => /\ Len(requests) > 0
       /\ Paths[Len(Paths)] = PositionalPaths(action)[Len(PositionalPaths(action))]
       /\ Paths = PositionalPaths(action)

(* -------------------------------- C10 ---------------------------------- *)

ExpectedRequests ==
    LET b == Req("GET", "/members/me/boards", 0, 0, <<>>)
        l == Req("GET", "/boards/id/lists", BoardAsked.id, 0, <<>>)
        c == Req("GET", "/lists/id/cards", ListAsked(args[3]).id, 0, <<>>)
        card == CardAsked(ListAsked(args[3]), args[4])
    IN  CASE args[1] = MOVE ->
                <<b, l, l, c, Req("PUT", "/cards/id", card.id, ListAsked(args[5]).id, <<>>)>>
          [] args[1] = ADD ->
                <<b, l, Req("POST", "/cards", 0, ListAsked(args[3]).id, args[4])>>
          [] args[1] = DELETE ->
                <<b, l, c, Req("DELETE", "/cards/id", card.id, 0, <<>>)>>

ExpectedCount == CASE args[1] = MOVE -> 5 [] args[1] = ADD -> 3 [] args[1] = DELETE -> 4

ChangeRun == Positional(MOVE) \/ Positional(ADD) \/ Positional(DELETE)

ChangeSucceeded ==
    /\ ChangeRun
    /\ pc = "done"
    /\ \/ HasMsg("Task moved to")
       \/ HasMsg("Task added to")
       \/ HasMsg("Task deleted from")

\* C10: move, add and delete issue their requests one at a time, each after
\* the response to the one before: board, then list (for move the source list,
\* then the destination list), then task, then the action; a successful run
\* has made 5, 3 and 4 requests, of which only the last is mutating.
C10_SequentialChain ==
    ChangeRun =>
        /\ inflight \in 0..1
        /\ Len(requests) <= ExpectedCount
        /\ requests = SubSeq(ExpectedRequests, 1, Len(requests))
        /\ toList.id # 0 => list.id # 0
        /\ list.id # 0 => board.id # 0
        /\ task.id # 0 => list.id # 0 /\ (args[1] = MOVE => toList.id # 0)
        /\ (inflight = 1 /\ Mutating(requests[Len(requests)])) =>
              Len(requests) = ExpectedCount
        /\ ChangeSucceeded =>
              /\ inflight = 0
              /\ Len(requests) = ExpectedCount
              /\ Mutating(requests[Len(requests)])
              /\ \A i \in 1..(Len(requests) - 1) : ~Mutating(requests[i])

C10_Witness ==
    /\ ChangeSucceeded
    /\ args[1] = MOVE
    /\ Len(requests) = 5
    /\ requests[2] = requests[3]
    /\ requests[5].method = "PUT"

====
